---- MODULE Spec2Model ----
(***************************************************************************)
(* A model of src/qsan.py: the QSAN client (class QSAN), its constructor,  *)
(* the four discovery passes, the stats retrievals with their lazy         *)
(* enable-monitoring requests, and the display-name functions.             *)
(*                                                                         *)
(* The array (the HTTP server) is the environment: every response is drawn *)
(* from a bounded set of documents, of HTTP status codes, or is a          *)
(* transport fault.  Strings the code slices or rewrites are sequences of  *)
(* one-character strings; opaque identifiers (volume ids, disk ids) are    *)
(* small integers.                                                         *)
(***************************************************************************)
EXTENDS Integers, Sequences, FiniteSets, TLC

VARIABLES
    self,      \* the QSAN object: its fields (session, soup, SANOS_VERSION, tables)
    ctor,      \* QSAN.__init__: "running", "done" or "failed" (it raised)
    pc,        \* the statement the client is at
    loc,       \* the local variables of the method that is running
    reqs,      \* the HTTP requests sent in the current call (the constructor is one call)
    outcome,   \* the current or last call: operation, status, exception, return
               \* value, and the entity keys the array reported during the call
    nm,        \* the display-name functions: last input and result (SpecNames)
    array      \* the volumes of the array, how it pages them, and the page
               \* request it has yet to answer (SpecPaged)

vars == <<self, ctor, pc, loc, reqs, outcome, nm, array>>

(***************************************************************************)
(* Bounds of the model.                                                    *)
(***************************************************************************)
MaxVol == 2      \* volume ids the array may report
MaxDisk == 2     \* disk ids, and slots, the array may report
MaxCP == 1       \* cache pools the array may report
MaxPort == 1     \* FC ports per controller
MaxPages == 2    \* page requests one vd_discovery call may send before the model stops following it
MaxStrLen == 2   \* length of the attribute strings given to the name functions

VolIds == 1..MaxVol
DiskIds == 1..MaxDisk
\* the slots of the enclosure a disk may sit in: MaxDisk of them, slot 10 and
\* the slots from 2 up
Slots == {IF i = 1 THEN 10 ELSE i : i \in 1..MaxDisk}
PoolIds == 1..MaxCP
\* the numbers in the names of the FC ports of a controller: MaxPort numbers, up to 3
PortNums == {3 - i : i \in 0..(MaxPort - 1)}

(***************************************************************************)
(* Finite maps (Python dicts) and strings.                                 *)
(***************************************************************************)
EmptyMap == <<>>

\* dict.update(new): the keys of new are added, an existing key takes new's value
Update(old, new) ==
    [k \in (DOMAIN old) \cup (DOMAIN new) |->
        IF k \in DOMAIN new THEN new[k] ELSE old[k]]

Digits == <<"0", "1", "2", "3", "4", "5", "6", "7", "8", "9">>

Digit(n) == Digits[n + 1]

IsDigit(c) == \E i \in 1..10 : Digits[i] = c

DigitVal(c) == (CHOOSE i \in 1..10 : Digits[i] = c) - 1

\* str(n) for a natural number n
RECURSIVE StrOfNat(_)
StrOfNat(n) == IF n < 10 THEN <<Digit(n)>> ELSE StrOfNat(n \div 10) \o <<Digit(n % 10)>>

\* s[a:b] of Python, 0-based, b exclusive, cut at the end of s
Slice(s, a, b) ==
    LET hi == IF b < Len(s) THEN b ELSE Len(s)
    IN  IF a >= hi THEN <<>> ELSE SubSeq(s, a + 1, hi)

\* s.replace(old, new) for a one-character old and a new of at most one character
RECURSIVE Replace(_, _, _)
Replace(s, old, new) ==
    IF s = <<>> THEN <<>>
    ELSE (IF Head(s) = old THEN new ELSE <<Head(s)>>) \o Replace(Tail(s), old, new)

\* sep.join(parts)
RECURSIVE Join(_, _)
Join(sep, parts) ==
    IF parts = <<>> THEN <<>>
    ELSE IF Len(parts) = 1 THEN parts[1]
    ELSE parts[1] \o sep \o Join(sep, Tail(parts))

\* sub in s, for strings
Contains(s, sub) ==
    \E i \in 0..(Len(s) - Len(sub)) : Slice(s, i, i + Len(sub)) = sub

(***************************************************************************)
(* The documents the array serves, as BeautifulSoup presents them.         *)
(***************************************************************************)
NoDoc == [kind |-> "none"]

\* a document an earlier call fetched.  Every method reads _soup only after a
\* request of its own (_is_authorized and _sanos_version_detect read the login
\* page, inside the constructor), so no code reads such a document again
Stale == [kind |-> "stale"]

\* the body that comes with a status that is not ok
ErrorPage == [kind |-> "error"]

Signature == <<"S", "A", "N", "O", "S", " ", "4", ".", "0">>

LogoTexts ==
    { Signature,
      <<"Q", "S", "A", "N", " ">> \o Signature,
      <<"S", "A", "N", "O", "S", " ", "3", ".", "0">> }

\* the page the login POST returns: the logout control, the logout icon and
\* the logo_writing block may each be there or not
LoginPages ==
    [kind : {"login"}, logout_btn : BOOLEAN, logout_img : BOOLEAN,
     logo : {[present |-> FALSE, text |-> <<>>]} \cup [present : {TRUE}, text : LogoTexts]]

VolAttrs(v) ==
    [name |-> <<"v", "o", "l", " ", Digit(v)>>,
     raid |-> <<"R", "A", "I", "D", " ", "1", "0">>,
     capacity |-> <<"1", "0", ".", "4", "8", " ", "T", "B">>]

\* a page of /vd_x.php: the reported total, the udv records (by id) and
\* possibly a udv element without children
VDPages ==
    [kind : {"vd"}, vd_num : 0..MaxVol, udv : SUBSET VolIds, blank : BOOLEAN]

DiskAttrs(slot) ==
    [slot |-> StrOfNat(slot),
     vendor |-> <<"S", "E", "A">>,
     serial |-> <<"Z">> \o StrOfNat(slot)]

\* the disks of the enclosure: each reported disk sits in a slot of its own
DiskInventories ==
    UNION { {f \in [S -> Slots] : \A a, b \in S : a # b => f[a] # f[b]} : S \in SUBSET DiskIds }

DiskPages == [kind : {"disk"}, hdd : DiskInventories]

PoolAttrs(i) ==
    [ssd_name |-> <<"c", "p", " ", Digit(i)>>, rg_id |-> StrOfNat(i)]

CPPages == [kind : {"cp"}, pools : SUBSET PoolIds]

\* the name of port n as the detected generation formats it
PortName(gen, n) ==
    IF gen = 4 THEN <<"F", "C", Digit(n), " ", "(", "1", "6", "G", "b", ")">>
    ELSE <<"P", "o", "r", "t", " ", Digit(n)>>

PortAttrs(gen, c, n) ==
    [name |-> PortName(gen, n), ctr |-> <<"C", "T", "R", Digit(c + 1)>>]

\* a page of /fc_x.php for one controller: without a response element, or
\* with the ports of the controller
FCPages ==
    {[kind |-> "fc", response |-> FALSE, ports |-> {}]}
        \cup [kind : {"fc"}, response : {TRUE}, ports : SUBSET PortNums]

(***************************************************************************)
(* HTTP responses: a transport fault, or a status code with a body.        *)
(***************************************************************************)
Fault == [fault |-> TRUE, status_code |-> 0, ok |-> FALSE, doc |-> NoDoc]

\* a response that arrived: r.ok of requests is "the status code is below 400"
Response(code, doc) ==
    [fault |-> FALSE, status_code |-> code, ok |-> code < 400, doc |-> doc]

\* what may come back for a request whose page is one of docs
Responses(docs) ==
    {Fault}
        \cup {Response(code, doc) : code \in {200, 302}, doc \in docs}
        \cup {Response(500, ErrorPage)}

is_request_ok(r) == r.ok \/ r.status_code = 200 \/ r.status_code = 302

(***************************************************************************)
(* The QSAN object.                                                        *)
(***************************************************************************)
\* the fields as __init__ sets them before it calls connect()
NewObject ==
    [session |-> 0, soup |-> NoDoc, SANOS_VERSION |-> 4,
     VDs |-> EmptyMap, DISKs |-> EmptyMap, CPs |-> EmptyMap, FCs |-> EmptyMap]

Tables(s) == [VDs |-> s.VDs, DISKs |-> s.DISKs, CPs |-> s.CPs, FCs |-> s.FCs]

\* _connection_init: the session (0: None) is closed and a new one takes its place
connection_init(s) == [s EXCEPT !.session = @ + 1]

\* a detection that would not read the text of the logo_writing block
sanos_version_detect_marker_only(s) ==
    IF s.soup.kind = "login" /\ s.soup.logo.present THEN s
    ELSE [s EXCEPT !.SANOS_VERSION = 3]

\* _sanos_version_detect: generation 3 unless the logo_writing block is there
\* and holds the signature of generation 4
sanos_version_detect(s) ==
    LET found == s.soup.kind = "login" /\ s.soup.logo.present
    IN  IF found
        THEN (IF ~Contains(s.soup.logo.text, Signature)
              THEN [s EXCEPT !.SANOS_VERSION = 3] ELSE s)
        ELSE [s EXCEPT !.SANOS_VERSION = 3]

\* a _connection that would open a new session for every request
connection_new_session(s, r) ==
    IF r.fault THEN connection_init(s) ELSE [connection_init(s) EXCEPT !.soup = r.doc]

\* a _connection that would detect the generation again on every page it parses
connection_redetect(s, r) ==
    IF r.fault THEN s ELSE sanos_version_detect([s EXCEPT !.soup = r.doc])

\* _connection, as far as it changes the object: a response that arrives is
\* parsed into _soup, whatever its status; a fault leaves the object as it was
connection(s, r) == IF r.fault THEN s ELSE [s EXCEPT !.soup = r.doc]

\* whether _connection raises RequestException
connection_raises(r) == r.fault \/ ~is_request_ok(r)

\* the log entry of a request: the request as it goes out, on the session the
\* object holds, and what came back (a fault, or a response that is ok or not)
Sent(s, method, path, arg, r) ==
    [method |-> method, path |-> path, arg |-> arg, session |-> s.session,
     fault |-> r.fault, ok |-> r.ok]

\* an _is_authorized that would take any login page for an authorized one
is_authorized_any_page(soup) == soup.kind = "login"

\* _is_authorized: the logout control or the logout icon is on the page
is_authorized(soup) ==
    soup.kind = "login" /\ (soup.logout_btn \/ soup.logout_img)

(***************************************************************************)
(* Control: calls, returns and exceptions.                                 *)
(***************************************************************************)
\* what the array reported during a call: the keys of the records it served
\* and, in a stats document, the keys of those marked as monitored
Seen(keys, enabled) == [keys |-> keys, enabled |-> enabled]

NoneSeen == Seen({}, {})

Discoveries == {"vd_discovery", "disk_discovery", "cache_pool_discovery", "fc_discovery"}

\* the locals of the methods, as each method sets them on entry
Loc0 ==
    [page |-> 1, VDs |-> EmptyMap, FCs |-> EmptyMap, ctrl |-> 0,
     stats |-> EmptyMap, todo |-> <<>>]

\* an __init__ that would discover the disks before the volumes
CtorNext_disks_first(label) ==
    CASE label = "connect" -> "detect"
      [] label = "detect" -> "disk_discovery"
      [] label = "disk_discovery" -> "vd_discovery"
      [] label = "vd_discovery" -> "cache_pool_discovery"
      [] label = "cache_pool_discovery" -> "fc_discovery"
      [] OTHER -> "idle"

\* __init__ calls, in this order: connect, _sanos_version_detect, the four discoveries
CtorNext(label) ==
    CASE label = "connect" -> "detect"
      [] label = "detect" -> "vd_discovery"
      [] label = "vd_discovery" -> "disk_discovery"
      [] label = "disk_discovery" -> "cache_pool_discovery"
      [] label = "cache_pool_discovery" -> "fc_discovery"
      [] OTHER -> "idle"

\* the method at pc returns ret, the object being s: inside __init__ the next
\* statement of __init__ follows, otherwise control is back with the caller.
\* seen: what the array reported to the method
Return(s, ret, seen) ==
    /\ self' = s
    /\ loc' = Loc0
    /\ IF ctor = "running"
       THEN /\ pc' = CtorNext(pc)
            /\ ctor' = IF CtorNext(pc) = "idle" THEN "done" ELSE "running"
            /\ outcome' = IF CtorNext(pc) = "idle"
                          THEN [outcome EXCEPT !.status = "returned", !.seen = seen]
                          ELSE [outcome EXCEPT !.seen = NoneSeen]
       ELSE /\ pc' = "idle"
            /\ ctor' = ctor
            /\ outcome' = [outcome EXCEPT !.status = "returned", !.ret = ret,
                                          !.seen = seen]

\* a method that would catch what it raises and go on where it was
Raise_and_go_on(s, exc) ==
    /\ self' = s
    /\ UNCHANGED <<loc, outcome, ctor, pc>>

\* the method at pc raises exc, the object being s: nothing catches it, so
\* inside __init__ the construction fails, otherwise the caller gets it
Raise(s, exc) ==
    /\ self' = s
    /\ loc' = Loc0
    /\ outcome' = [outcome EXCEPT !.status = "raised", !.exc = exc]
    /\ IF ctor = "running"
       THEN ctor' = "failed" /\ pc' = "failed"
       ELSE ctor' = ctor /\ pc' = "idle"

CountPath(log, path) == Cardinality({i \in 1..Len(log) : log[i].path = path})

(***************************************************************************)
(* The constructor: connect() and _sanos_version_detect().                 *)
(***************************************************************************)
\* connect(): _connection_init, then _authorize (the login POST, then _is_authorized)
Connect ==
    /\ pc = "connect"
    /\ \E r \in Responses(LoginPages) :
        LET s0 == connection_init(self)
            s1 == connection(s0, r)
        IN  /\ reqs' = Append(reqs, Sent(s0, "POST", "login", "credentials", r))
            /\ IF connection_raises(r) THEN Raise(s1, "RequestException")
               ELSE IF ~is_authorized(s1.soup) THEN Raise(s1, "RequestException")
               ELSE Return(s1, "None", NoneSeen)
    /\ UNCHANGED <<nm, array>>

Detect ==
    /\ pc = "detect"
    /\ Return(sanos_version_detect(self), "None", NoneSeen)
    /\ UNCHANGED <<reqs, nm, array>>

(***************************************************************************)
(* vd_discovery.                                                           *)
(***************************************************************************)
\* bool(tag) of a bs4 Tag: "A tag is non-None even if it has no contents"
TagTruth(tag) == TRUE

\* find_all('udv'): the records, and the element without children if the page has one
UdvTags(doc) ==
    {[id |-> v, children |-> TRUE] : v \in doc.udv}
        \cup (IF doc.blank THEN {[id |-> 0, children |-> FALSE]} ELSE {})

\* the records of a page that the loop body stores: id -> attributes, id popped
vd_page_records(doc) ==
    [v \in {t.id : t \in {u \in UdvTags(doc) : TagTruth(u)}} |-> VolAttrs(v)]

\* udv.find('id') is None for an element without children: .text raises
vd_page_raises(doc) == \E t \in UdvTags(doc) : TagTruth(t) /\ ~t.children

\* page += 1 in the else branch of "if udv"
vd_next_page(page, doc) == page + Cardinality({t \in UdvTags(doc) : ~TagTruth(t)})

\* an exit test that would stop as soon as the count is reached or passed
vd_loop_done_at_least(VDs, VD_count) == Cardinality(DOMAIN VDs) >= VD_count

\* the loop's exit test
vd_loop_done(VDs, VD_count) == Cardinality(DOMAIN VDs) = VD_count

\* a vd_discovery that would assign the table inside the loop, page by page
vd_discovery_store_each_page(s, VDs, done) == [s EXCEPT !.VDs = VDs]

\* what one pass of the loop leaves in the object: the table is assigned
\* after the loop only
vd_discovery_store(s, VDs, done) == IF done THEN [s EXCEPT !.VDs = VDs] ELSE s

\* one pass of the while loop: the page request is answered by r, and log is
\* the log with the request in it
VdDiscoveryPass(r, log) ==
    LET s1 == connection(self, r)
    IN  /\ reqs' = log
        /\ IF connection_raises(r) THEN Raise(s1, "RequestException")
           ELSE IF vd_page_raises(s1.soup) THEN Raise(s1, "AttributeError")
           ELSE LET VD_count == s1.soup.vd_num
                    VDs == Update(loc.VDs, vd_page_records(s1.soup))
                    done == vd_loop_done(VDs, VD_count)
                    seen == Seen(outcome.seen.keys \cup s1.soup.udv, {})
                IN  IF done
                    THEN Return(vd_discovery_store(s1, VDs, TRUE), "None", seen)
                    ELSE /\ self' = vd_discovery_store(s1, VDs, FALSE)
                         /\ loc' = [loc EXCEPT !.VDs = VDs,
                                               !.page = vd_next_page(loc.page, s1.soup)]
                         /\ outcome' = [outcome EXCEPT !.seen = seen]
                         /\ UNCHANGED <<ctor, pc>>

VdDiscovery ==
    /\ pc = "vd_discovery"
    /\ CountPath(reqs, "VD") < MaxPages
    /\ \E r \in Responses(VDPages) :
        VdDiscoveryPass(r, Append(reqs, Sent(self, "GET", "VD", loc.page, r)))
    /\ UNCHANGED <<nm, array>>

(***************************************************************************)
(* disk_discovery and cache_pool_discovery.                                *)
(***************************************************************************)
\* the dict the loop over find_all('hdd') builds: id -> attributes, id popped
disk_records(doc) == [d \in DOMAIN doc.hdd |-> DiskAttrs(doc.hdd[d])]

\* a disk_discovery that would merge what it found into the table it finds
disk_discovery_store_merge(s, DISKs) == [s EXCEPT !.DISKs = Update(s.DISKs, DISKs)]

\* self._DISKs = DISKs: the table is replaced
disk_discovery_store(s, DISKs) == [s EXCEPT !.DISKs = DISKs]

DiskDiscovery ==
    /\ pc = "disk_discovery"
    /\ \E r \in Responses(DiskPages) :
        LET s1 == connection(self, r)
        IN  /\ reqs' = Append(reqs, Sent(self, "GET", "DISK", "enc_idx=0", r))
            /\ IF connection_raises(r) THEN Raise(s1, "RequestException")
               ELSE Return(disk_discovery_store(s1, disk_records(s1.soup)), "None",
                           Seen(DOMAIN s1.soup.hdd, {}))
    /\ UNCHANGED <<nm, array>>

\* the key of a pool: its ssd_name with every space replaced by a hyphen
PoolKey(i) == Replace(PoolAttrs(i).ssd_name, " ", <<"-">>)

cp_records(doc) ==
    [k \in {PoolKey(i) : i \in doc.pools} |->
        PoolAttrs(CHOOSE i \in doc.pools : PoolKey(i) = k)]

\* a cache_pool_discovery that would also empty the table of the FC ports
cache_pool_discovery_store_fresh(s, CPs) == [s EXCEPT !.CPs = CPs, !.FCs = EmptyMap]

cache_pool_discovery_store(s, CPs) == [s EXCEPT !.CPs = CPs]

CachePoolDiscovery ==
    /\ pc = "cache_pool_discovery"
    /\ IF self.SANOS_VERSION = 3
       THEN /\ Return(self, EmptyMap, NoneSeen)
            /\ UNCHANGED reqs
       ELSE \E r \in Responses(CPPages) :
            LET s1 == connection(self, r)
            IN  /\ reqs' = Append(reqs, Sent(self, "GET", "CP", "getSSDtableData", r))
                /\ IF connection_raises(r) THEN Raise(s1, "RequestException")
                   ELSE Return(cache_pool_discovery_store(s1, cp_records(s1.soup)), "None",
                               Seen({PoolAttrs(i).ssd_name : i \in s1.soup.pools}, {}))
    /\ UNCHANGED <<nm, array>>

(***************************************************************************)
(* fc_discovery.                                                           *)
(***************************************************************************)
\* the list ['0', '1'] the loop runs over
Controllers == << <<"0">>, <<"1">> >>

\* int(s) succeeds on a non-empty string of digits
IsInt(s) == s # <<>> /\ \A i \in 1..Len(s) : IsDigit(s[i])

RECURSIVE IntOf(_)
IntOf(s) == IF s = <<>> THEN 0 ELSE 10 * IntOf(SubSeq(s, 1, Len(s) - 1)) + DigitVal(s[Len(s)])

StrOfInt(n) == IF n < 0 THEN <<"-">> \o StrOfNat(0 - n) ELSE StrOfNat(n)

\* the character of the port's name that holds its number
fc_port_digit(ver, name) == IF ver = 3 THEN Slice(name, 5, 6) ELSE Slice(name, 2, 3)

\* a port_id that would keep the number of the name as it is
fc_port_id_one_based(ver, name) == StrOfInt(IntOf(fc_port_digit(ver, name)))

fc_port_id(ver, name) == StrOfInt(IntOf(fc_port_digit(ver, name)) - 1)

fc_key(controller, port_id) == Join(<<":">>, <<controller, port_id>>)

\* the fc_port_value elements of controller number c (0 or 1), none when the
\* page has no response element
FcTags(ver, c, doc) ==
    IF doc.response THEN {PortAttrs(ver, c, n) : n \in doc.ports} ELSE {}

\* int() of a character that is no digit raises ValueError
fc_page_raises(ver, c, doc) ==
    \E a \in FcTags(ver, c, doc) : ~IsInt(fc_port_digit(ver, a.name))

fc_page_records(ver, c, doc) ==
    LET tags == FcTags(ver, c, doc)
        key(a) == fc_key(Controllers[c + 1], fc_port_id(ver, a.name))
    IN  [k \in {key(a) : a \in tags} |-> CHOOSE a \in tags : key(a) = k]

\* the table is assigned after the loop over the controllers only
fc_discovery_store(s, FCs, done) == IF done THEN [s EXCEPT !.FCs = FCs] ELSE s

FcDiscovery ==
    /\ pc = "fc_discovery"
    /\ \E r \in Responses(FCPages) :
        LET s1 == connection(self, r)
            c == loc.ctrl
            ver == self.SANOS_VERSION
        IN  /\ reqs' = Append(reqs, Sent(self, "GET", "FC", Controllers[c + 1], r))
            /\ IF connection_raises(r) THEN Raise(s1, "RequestException")
               ELSE IF fc_page_raises(ver, c, s1.soup) THEN Raise(s1, "ValueError")
               ELSE LET FCs == Update(loc.FCs, fc_page_records(ver, c, s1.soup))
                        done == c + 1 = Len(Controllers)
                        seen == Seen(outcome.seen.keys
                                        \cup {<<c, a.name>> : a \in FcTags(ver, c, s1.soup)}, {})
                    IN  IF done
                        THEN Return(fc_discovery_store(s1, FCs, TRUE), "None", seen)
                        ELSE /\ self' = fc_discovery_store(s1, FCs, FALSE)
                             /\ loc' = [loc EXCEPT !.FCs = FCs, !.ctrl = c + 1]
                             /\ outcome' = [outcome EXCEPT !.seen = seen]
                             /\ UNCHANGED <<ctor, pc>>
    /\ UNCHANGED <<nm, array>>

(***************************************************************************)
(* Sorting of strings, as list.sort() orders them: by code point.          *)
(***************************************************************************)
CharOrder == <<"-", "0", "1", "2", "3", "4", "5", "6", "7", "8", "9", ":">>

Ord(c) == CHOOSE i \in 1..Len(CharOrder) : CharOrder[i] = c

RECURSIVE LexLess(_, _)
LexLess(a, b) ==
    IF a = <<>> THEN b # <<>>
    ELSE IF b = <<>> THEN FALSE
    ELSE IF a[1] = b[1] THEN LexLess(Tail(a), Tail(b))
    ELSE Ord(a[1]) < Ord(b[1])

RECURSIVE SortStrings(_)
SortStrings(S) ==
    IF S = {} THEN <<>>
    ELSE LET m == CHOOSE x \in S : \A y \in S : x = y \/ LexLess(x, y)
         IN  <<m>> \o SortStrings(S \ {m})

\* the keys of a table whose keys are numbers, in a list
RECURSIVE KeyList(_)
KeyList(S) ==
    IF S = {} THEN <<>>
    ELSE LET m == CHOOSE x \in S : \A y \in S : x <= y
         IN  <<m>> \o KeyList(S \ {m})

\* the page an enable-monitoring POST returns; nothing reads it
AckPages == {[kind |-> "ack"]}

\* a conversion that would take the kilobyte for 1000 bytes
kib_to_bytes_decimal(text) == StrOfNat(IntOf(text) * 1000)

\* str(int(text) * 1024)
kib_to_bytes(text) == StrOfNat(IntOf(text) * 1024)

(***************************************************************************)
(* vd_stats and _vd_stats_enable_VDs.                                      *)
(***************************************************************************)
VolCounters(v) ==
    [iops_rate |-> <<"7">>, tx_rate |-> StrOfNat(100 * v), rx_rate |-> StrOfNat(v)]

\* the stats document: a volume_stats record for each volume that is monitored
VDStatsPages == [kind : {"vd_stats"}, recs : SUBSET VolIds]

vd_stats_records(doc) ==
    [v \in doc.recs |->
        [iops |-> VolCounters(v).iops_rate,
         read |-> kib_to_bytes(VolCounters(v).tx_rate),
         write |-> kib_to_bytes(VolCounters(v).rx_rate)]]

\* volumes_monitoring_check: a record being there means the volume is monitored
vd_monitoring_check(doc) == doc.recs

\* a vd_stats that would enable the monitoring whatever it has compared
vd_stats_needs_enable_always(check, IDs) == TRUE

\* set(volumes_monitoring_check) != set(volumes_IDs)
vd_stats_needs_enable(check, IDs) == check # IDs

\* a _vd_stats_enable_VDs that would name the first of the ids only
vd_stats_enable_VDs_first(VDs) ==
    << [path |-> "select_stats_VD", arg |-> SubSeq(VDs, 1, 1)] >>

\* the requests _vd_stats_enable_VDs(volumes_IDs) sends: one, naming every id given
vd_stats_enable_VDs(VDs) == << [path |-> "select_stats_VD", arg |-> VDs] >>

\* vd_stats up to its call of the enable helper, r being what comes back for
\* the stats document
VdStatsOn(r) ==
    LET s1 == connection(self, r)
    IN  /\ reqs' = Append(reqs, Sent(self, "GET", "VD_stats", "monitor_volume", r))
        /\ IF connection_raises(r) THEN Raise(s1, "RequestException")
           ELSE LET VDstats == vd_stats_records(s1.soup)
                    volumes_IDs == DOMAIN self.VDs
                    check == vd_monitoring_check(s1.soup)
                IN  IF vd_stats_needs_enable(check, volumes_IDs)
                    THEN /\ self' = s1
                         /\ loc' = [loc EXCEPT !.stats = VDstats,
                                               !.todo = vd_stats_enable_VDs(KeyList(volumes_IDs))]
                         /\ pc' = "vd_enable"
                         /\ outcome' = [outcome EXCEPT !.seen = Seen(s1.soup.recs, check)]
                         /\ UNCHANGED ctor
                    ELSE Return(s1, VDstats, Seen(s1.soup.recs, check))

VdStats ==
    /\ pc = "vd_stats"
    /\ \E r \in Responses(VDStatsPages) : VdStatsOn(r)
    /\ UNCHANGED <<nm, array>>

\* one request of an enable helper: the POST at the head of the list; when the
\* list is done the helper returns and the stats method returns its counters
EnableStepOn(r) ==
    LET s1 == connection(self, r)
        q == Head(loc.todo)
    IN  /\ reqs' = Append(reqs, Sent(self, "POST", q.path, q.arg, r))
        /\ IF connection_raises(r) THEN Raise(s1, "RequestException")
           ELSE IF Tail(loc.todo) = <<>> THEN Return(s1, loc.stats, outcome.seen)
           ELSE /\ self' = s1
                /\ loc' = [loc EXCEPT !.todo = Tail(loc.todo)]
                /\ UNCHANGED <<ctor, pc, outcome>>

EnableStep(label) ==
    /\ pc = label
    /\ loc.todo # <<>>
    /\ \E r \in Responses(AckPages) : EnableStepOn(r)
    /\ UNCHANGED <<nm, array>>

VdEnable == EnableStep("vd_enable")

(***************************************************************************)
(* disk_stats, _disk_stats_enable_DISKs and the slot lookups.              *)
(***************************************************************************)
\* what a function without a return statement returns
PyNone == 0

DiskCounters(slot) == [latency |-> <<"3">>, thruput |-> StrOfNat(100 * slot)]

\* the stats document: a disk_monitor_stats record for some slots, each
\* with is_enabled "Yes" or "No"
DiskStatsPages ==
    [kind : {"disk_stats"}, recs : UNION {[S -> {"Yes", "No"}] : S \in SUBSET Slots}]

get_DISK_id_by_slot(DISKs, slot) ==
    IF \E d \in DOMAIN DISKs : DISKs[d].slot = slot
    THEN CHOOSE d \in DOMAIN DISKs : DISKs[d].slot = slot
    ELSE PyNone

get_DISK_slot_by_id(DISKs, id) == DISKs[id].slot

\* a disk_stats that would report the counters of the records marked as
\* monitored only
disk_stats_records_enabled_only(DISKs, doc) ==
    LET on == {n \in DOMAIN doc.recs : doc.recs[n] = "Yes"}
        id(n) == get_DISK_id_by_slot(DISKs, StrOfNat(n))
        last(k) == CHOOSE n \in on : id(n) = k /\ \A m \in on : id(m) = k => m <= n
    IN  [k \in {id(n) : n \in on} |->
            [latency |-> DiskCounters(last(k)).latency,
             thruput |-> kib_to_bytes(DiskCounters(last(k)).thruput)]]

\* DISKstats: each record is stored under the id of its slot, enabled or not;
\* of two records with one id the later (the higher slot) stays
disk_stats_records(DISKs, doc) ==
    LET id(n) == get_DISK_id_by_slot(DISKs, StrOfNat(n))
        last(k) == CHOOSE n \in DOMAIN doc.recs :
                       id(n) = k /\ \A m \in DOMAIN doc.recs : id(m) = k => m <= n
    IN  [k \in {id(n) : n \in DOMAIN doc.recs} |->
            [latency |-> DiskCounters(last(k)).latency,
             thruput |-> kib_to_bytes(DiskCounters(last(k)).thruput)]]

disk_monitoring_check(DISKs, doc) ==
    {get_DISK_id_by_slot(DISKs, StrOfNat(n)) : n \in {m \in DOMAIN doc.recs : doc.recs[m] = "Yes"}}

disk_stats_needs_enable(check, IDs) == check # IDs

\* a _disk_stats_enable_DISKs that would sort the slots as numbers
disk_stats_enable_DISKs_numeric(DISKs, ids) ==
    LET nums == KeyList({IntOf(get_DISK_slot_by_id(DISKs, d)) : d \in ids})
    IN  << [path |-> "select_stats_DISK",
            arg |-> [i \in 1..Len(nums) |-> StrOfNat(nums[i])]] >>

\* the request _disk_stats_enable_DISKs(disks_IDs) sends: one, naming the
\* slots of the disks given, sorted as strings
disk_stats_enable_DISKs(DISKs, ids) ==
    << [path |-> "select_stats_DISK",
        arg |-> SortStrings({get_DISK_slot_by_id(DISKs, d) : d \in ids})] >>

\* disk_stats up to its call of the enable helper, r being what comes back
\* for the stats document
DiskStatsOn(r) ==
    LET s1 == connection(self, r)
    IN  /\ reqs' = Append(reqs, Sent(self, "GET", "DISK_stats", "monitor_disk", r))
        /\ IF connection_raises(r) THEN Raise(s1, "RequestException")
           ELSE LET DISKstats == disk_stats_records(self.DISKs, s1.soup)
                    disks_IDs == DOMAIN self.DISKs
                    check == disk_monitoring_check(self.DISKs, s1.soup)
                    seen == Seen(DOMAIN s1.soup.recs, check)
                IN  IF disk_stats_needs_enable(check, disks_IDs)
                    THEN /\ self' = s1
                         /\ loc' = [loc EXCEPT !.stats = DISKstats,
                                               !.todo = disk_stats_enable_DISKs(self.DISKs, disks_IDs)]
                         /\ pc' = "disk_enable"
                         /\ outcome' = [outcome EXCEPT !.seen = seen]
                         /\ UNCHANGED ctor
                    ELSE Return(s1, DISKstats, seen)

DiskStats ==
    /\ pc = "disk_stats"
    /\ \E r \in Responses(DiskStatsPages) : DiskStatsOn(r)
    /\ UNCHANGED <<nm, array>>

DiskEnable == EnableStep("disk_enable")

(***************************************************************************)
(* fc_stats and _fc_stats_enable_FCs.                                      *)
(***************************************************************************)
FCCounters == [tx |-> <<"1", "0", "0">>, rx |-> <<"2">>]

\* a port's record: not enabled; enabled without rates yet; enabled with rates
FCPortStates ==
    { [is_enabled |-> "No", num_rates |-> <<"0">>],
      [is_enabled |-> "Yes", num_rates |-> <<"0">>],
      [is_enabled |-> "Yes", num_rates |-> <<"5">>] }

\* the stats document: under ctrl_fcport_info of controller c, a
\* fcport_stats record for some port indices p; the records are <<c, p>>
FCStatsPages ==
    [kind : {"fc_stats"},
     recs : UNION {[S -> FCPortStates] : S \in SUBSET ({0, 1} \X {n - 1 : n \in PortNums})}]

\* id = controller + ':' + port
fc_stats_id(cp) == StrOfNat(cp[1]) \o <<":">> \o StrOfNat(cp[2])

fc_stats_records(doc) ==
    LET rec(k) == CHOOSE cp \in DOMAIN doc.recs : fc_stats_id(cp) = k
    IN  [k \in {fc_stats_id(cp) : cp \in DOMAIN doc.recs} |->
            IF doc.recs[rec(k)].is_enabled = "Yes" /\ IntOf(doc.recs[rec(k)].num_rates) > 0
            THEN [tx |-> kib_to_bytes(FCCounters.tx), rx |-> kib_to_bytes(FCCounters.rx)]
            ELSE [tx |-> <<"0">>, rx |-> <<"0">>]]

fc_monitoring_check(doc) ==
    {fc_stats_id(cp) : cp \in {x \in DOMAIN doc.recs : doc.recs[x].is_enabled = "Yes"}}

fc_stats_needs_enable(check, IDs) == check # IDs

\* an fc_stats that would hand every known port to _fc_stats_enable_FCs on
\* either generation
fc_stats_enable_arg_all(ver, check, IDs) == IDs

\* the list fc_stats hands to _fc_stats_enable_FCs: every known port on
\* generation 4, the known ports that are not enabled on generation 3
fc_stats_enable_arg(ver, check, IDs) == IF ver = 4 THEN IDs ELSE IDs \ check

\* a _fc_stats_enable_FCs that would send one request naming the list on
\* either generation
fc_stats_enable_FCs_batched(ver, FCs) ==
    << [path |-> "select_stats_FC", arg |-> SortStrings(FCs)] >>

\* the requests _fc_stats_enable_FCs(FCs) sends: the list is sorted; generation
\* 4 gets one request naming the list, generation 3 one request for each port
fc_stats_enable_FCs(ver, FCs) ==
    LET sorted == SortStrings(FCs)
    IN  IF ver = 4
        THEN << [path |-> "select_stats_FC", arg |-> sorted] >>
        ELSE [i \in 1..Len(sorted) |->
                 [path |-> "select_stats_FC_SANOS3",
                  arg |-> [ctrl_idx |-> Slice(sorted[i], 0, 1), is_enable |-> 1,
                           op |-> "fcport_set_monitor",
                           port_idx |-> Slice(sorted[i], 2, 3)]]]

\* fc_stats up to its call of the enable helper, r being what comes back for
\* the stats document
FcStatsOn(r) ==
    LET s1 == connection(self, r)
    IN  /\ reqs' = Append(reqs, Sent(self, "GET", "FC_stats", "monitor_fcport", r))
        /\ IF connection_raises(r) THEN Raise(s1, "RequestException")
           ELSE LET FCstats == fc_stats_records(s1.soup)
                    ports_IDs == DOMAIN self.FCs
                    check == fc_monitoring_check(s1.soup)
                    seen == Seen({fc_stats_id(cp) : cp \in DOMAIN s1.soup.recs}, check)
                    todo == IF fc_stats_needs_enable(check, ports_IDs)
                            THEN fc_stats_enable_FCs(self.SANOS_VERSION,
                                     fc_stats_enable_arg(self.SANOS_VERSION, check, ports_IDs))
                            ELSE <<>>
                IN  IF todo # <<>>
                    THEN /\ self' = s1
                         /\ loc' = [loc EXCEPT !.stats = FCstats, !.todo = todo]
                         /\ pc' = "fc_enable"
                         /\ outcome' = [outcome EXCEPT !.seen = seen]
                         /\ UNCHANGED ctor
                    ELSE Return(s1, FCstats, seen)

FcStats ==
    /\ pc = "fc_stats"
    /\ \E r \in Responses(FCStatsPages) : FcStatsOn(r)
    /\ UNCHANGED <<nm, array>>

FcEnable == EnableStep("fc_enable")

(***************************************************************************)
(* storage_stats.                                                          *)
(***************************************************************************)
DashCounters ==
    [iops |-> <<"1", "0", ",", "7", "6", "4">>, tx |-> <<"1", ".", "5">>,
     rx |-> <<"0", ".", "3">>]

\* the dashboard document: without a response element; with one that has no
\* controller element; with both (and then with the three counters)
DashboardPages ==
    { [kind |-> "dashboard", response |-> FALSE, controller |-> FALSE],
      [kind |-> "dashboard", response |-> TRUE, controller |-> FALSE],
      [kind |-> "dashboard", response |-> TRUE, controller |-> TRUE] }

RECURSIVE Pow10(_)
Pow10(n) == IF n = 0 THEN 1 ELSE 10 * Pow10(n - 1)

\* str(int(float(text) * 1048576)) for a decimal text: the product is cut to
\* an integer
mib_to_bytes(text) ==
    LET dots == {i \in 1..Len(text) : text[i] = "."}
        d == IF dots = {} THEN Len(text) + 1 ELSE CHOOSE i \in dots : TRUE
        whole == SubSeq(text, 1, d - 1)
        frac == SubSeq(text, d + 1, Len(text))
        scale == Pow10(Len(frac))
    IN  StrOfNat(((IntOf(whole) * scale + IntOf(frac)) * 1048576) \div scale)

\* the dict storage_stats returns when the controller element is there
storage_stats_records(c) ==
    [iops |-> Replace(c.iops, ",", <<>>),
     read |-> mib_to_bytes(Replace(c.tx, ",", <<>>)),
     write |-> mib_to_bytes(Replace(c.rx, ",", <<>>))]

StorageStats ==
    /\ pc = "storage_stats"
    /\ \E r \in Responses(DashboardPages) :
        LET s1 == connection(self, r)
        IN  /\ reqs' = Append(reqs, Sent(self, "GET", "data", "monitor_dashboard", r))
            /\ IF connection_raises(r) THEN Raise(s1, "RequestException")
               \* _soup.response is None: .controller raises
               ELSE IF ~s1.soup.response THEN Raise(s1, "AttributeError")
               ELSE IF ~s1.soup.controller THEN Return(s1, EmptyMap, NoneSeen)
               ELSE Return(s1, storage_stats_records(DashCounters), NoneSeen)
    /\ UNCHANGED <<nm, array>>

(***************************************************************************)
(* cp_stats and cp_stats_summarize.                                        *)
(***************************************************************************)
\* the read counters of a vol_data record: nothing read yet; 50 hits of 200
\* reads; 5 hits of 200 reads
ReadCounters ==
    { [log_rd_hit |-> <<"0">>, log_rd_tot |-> <<"0">>],
      [log_rd_hit |-> <<"5", "0">>, log_rd_tot |-> <<"2", "0", "0">>],
      [log_rd_hit |-> <<"5">>, log_rd_tot |-> <<"2", "0", "0">>] }

\* a vol_data record: its raid group and its read counters
VolDataOptions == [rg : PoolIds, reads : ReadCounters]

VolData(v, o) ==
    [vd |-> StrOfNat(v), rg |-> StrOfNat(o.rg),
     size_alloc |-> StrOfNat(10 * v), size_cached |-> StrOfNat(v), size_dirty |-> <<"1">>,
     log_rd_hit |-> o.reads.log_rd_hit,
     log_rd_tot |-> o.reads.log_rd_tot]

PoolData(i) ==
    [rg_id |-> StrOfNat(i), name |-> <<"c", "p", "-", Digit(i)>>]

\* the statistics document: pool_data records and vol_data records
CPStatsPages ==
    [kind : {"cp_stats"}, pools : SUBSET PoolIds,
     vols : UNION {[S -> VolDataOptions] : S \in SUBSET VolIds}]

\* cp_stats, generation 4: rg_id -> the pool's attributes and, under 'stats',
\* the vol_data records whose rg is the pool's rg_id
cp_stats(doc) ==
    [i \in doc.pools |->
        [rg_id |-> PoolData(i).rg_id, name |-> PoolData(i).name,
         stats |-> [v \in {w \in DOMAIN doc.vols :
                              VolData(w, doc.vols[w]).rg = PoolData(i).rg_id} |->
                       VolData(v, doc.vols[v])]]]

RECURSIVE SumOver(_, _, _)
SumOver(stats, field, left) ==
    IF left = {} THEN 0
    ELSE LET v == CHOOSE x \in left : TRUE
         IN  IntOf(stats[v][field]) + SumOver(stats, field, left \ {v})

\* a division that would cut the fraction off
RoundDiv_floor(a, b) == a \div b

\* round(a / b) of Python 3 for integers a >= 0, b > 0 whose quotient the
\* floats hold exactly (b a power of two; in cp_stats_summarize a total that
\* is a multiple of 100): to the nearest, a tie to the even
RoundDiv(a, b) ==
    LET q == a \div b
        rem == a % b
    IN  IF 2 * rem < b THEN q
        ELSE IF 2 * rem > b THEN q + 1
        ELSE IF q % 2 = 0 THEN q ELSE q + 1

\* log_rd_hit / (log_rd_tot / 100) raises ZeroDivisionError when the total is 0
cp_summary_raises(pools) ==
    \E i \in DOMAIN pools :
        SumOver(pools[i].stats, "log_rd_tot", DOMAIN pools[i].stats) = 0

\* a summary that would add size_alloc up like the other fields
cp_summary_all_summed(cp_params) ==
    LET st == cp_params.stats
        vs == DOMAIN st
        hit == SumOver(st, "log_rd_hit", vs)
        tot == SumOver(st, "log_rd_tot", vs)
    IN  [size_alloc |-> StrOfNat(SumOver(st, "size_alloc", vs) * 1024 * 1024),
         size_cached |-> StrOfNat(SumOver(st, "size_cached", vs) * 1024 * 1024),
         size_dirty |-> StrOfNat(SumOver(st, "size_dirty", vs) * 1024 * 1024),
         log_rd_hit |-> StrOfNat(hit),
         log_rd_tot |-> StrOfNat(tot),
         ratio |-> StrOfNat(RoundDiv(100 * hit, tot))]

\* the stat set of one pool; size_alloc is assigned, not added: the value of
\* the last record (the highest volume) stays, 0 without a record
cp_summary(cp_params) ==
    LET st == cp_params.stats
        vs == DOMAIN st
        last == CHOOSE v \in vs : \A w \in vs : w <= v
        hit == SumOver(st, "log_rd_hit", vs)
        tot == SumOver(st, "log_rd_tot", vs)
    IN  [size_alloc |-> StrOfNat(IF vs = {} THEN 0
                                 ELSE IntOf(st[last].size_alloc) * 1024 * 1024),
         size_cached |-> StrOfNat(SumOver(st, "size_cached", vs) * 1024 * 1024),
         size_dirty |-> StrOfNat(SumOver(st, "size_dirty", vs) * 1024 * 1024),
         log_rd_hit |-> StrOfNat(hit),
         log_rd_tot |-> StrOfNat(tot),
         ratio |-> StrOfNat(RoundDiv(100 * hit, tot))]

cp_stats_summarize(pools) ==
    [n \in {pools[i].name : i \in DOMAIN pools} |->
        cp_summary(pools[CHOOSE i \in DOMAIN pools : pools[i].name = n])]

CpStatsSummarize ==
    /\ pc = "cp_stats_summarize"
    /\ IF self.SANOS_VERSION = 3
       THEN /\ Return(self, EmptyMap, NoneSeen)
            /\ UNCHANGED reqs
       ELSE \E r \in Responses(CPStatsPages) :
            LET s1 == connection(self, r)
            IN  /\ reqs' = Append(reqs, Sent(self, "GET", "CP_stats", "get_statistics", r))
                /\ IF connection_raises(r) THEN Raise(s1, "RequestException")
                   ELSE LET pools == cp_stats(s1.soup)
                        IN  IF cp_summary_raises(pools)
                            THEN Raise(s1, "ZeroDivisionError")
                            ELSE Return(s1, cp_stats_summarize(pools), Seen(s1.soup.pools, {}))
    /\ UNCHANGED <<nm, array>>

(***************************************************************************)
(* is_storage_health_Good.                                                 *)
(***************************************************************************)
\* generation 4: the system list (response.data) may be missing; it may hold
\* a 'System Health' item, whose value is Good or something else
HealthPages ==
    [kind : {"health"}, data : BOOLEAN, health : {"none", "Good", "Degraded"}]

\* generation 3: the status_led div may be missing; its input images are
\* green or not
IndexPages ==
    [kind : {"index"}, status_led : BOOLEAN, leds : SUBSET {"-green.gif", "-red.gif"}]

IsStorageHealthGood ==
    /\ pc = "is_storage_health_Good"
    /\ IF self.SANOS_VERSION = 4
       THEN \E r \in Responses(HealthPages) :
            LET s1 == connection(self, r)
            IN  /\ reqs' = Append(reqs, Sent(self, "GET", "health", "system", r))
                /\ IF connection_raises(r) THEN Raise(s1, "RequestException")
                   ELSE IF ~s1.soup.data THEN Raise(s1, "AttributeError")
                   ELSE IF s1.soup.health = "none" THEN Return(s1, "None", NoneSeen)
                   ELSE IF s1.soup.health = "Good" THEN Return(s1, "True", NoneSeen)
                   ELSE Return(s1, "False", NoneSeen)
       ELSE \E r \in Responses(IndexPages) :
            LET s1 == connection(self, r)
            IN  /\ reqs' = Append(reqs, Sent(self, "GET", "health_SANOS3", "index", r))
                /\ IF connection_raises(r) THEN Raise(s1, "RequestException")
                   ELSE IF ~s1.soup.status_led THEN Raise(s1, "AttributeError")
                   ELSE IF \E el \in s1.soup.leds : el # "-green.gif"
                        THEN Return(s1, "False", NoneSeen)
                   ELSE Return(s1, "True", NoneSeen)
    /\ UNCHANGED <<nm, array>>

(***************************************************************************)
(* The caller: once the object is constructed, any operation may be called.*)
(***************************************************************************)
StatsOperations == {"vd_stats", "disk_stats", "fc_stats"}

Operations ==
    Discoveries \cup StatsOperations
        \cup {"storage_stats", "cp_stats_summarize", "is_storage_health_Good"}

Call ==
    /\ pc = "idle"
    /\ ctor = "done"
    /\ \E op \in Operations :
        /\ pc' = op
        /\ outcome' = [op |-> op, status |-> "running", exc |-> "none",
                        ret |-> "None", seen |-> NoneSeen]
    /\ reqs' = <<>>
    /\ loc' = Loc0
    /\ self' = [self EXCEPT !.soup = Stale]
    /\ UNCHANGED <<ctor, nm, array>>

\* no name function has been applied yet
NoName == [kind |-> "none"]

\* the array is any array: what it answers is chosen request by request
NoArray == [kind |-> "any"]

\* QSAN(...) has been called and is about to call connect()
Start ==
    /\ self = NewObject
    /\ ctor = "running"
    /\ pc = "connect"
    /\ loc = Loc0
    /\ reqs = <<>>
    /\ outcome = [op |-> "__init__", status |-> "running", exc |-> "none",
                  ret |-> "None", seen |-> NoneSeen]
    /\ nm = NoName

Init == Start /\ array = NoArray

Next ==
    \/ Connect
    \/ Detect
    \/ VdDiscovery
    \/ DiskDiscovery
    \/ CachePoolDiscovery
    \/ FcDiscovery
    \/ Call
    \/ VdStats
    \/ VdEnable
    \/ DiskStats
    \/ DiskEnable
    \/ FcStats
    \/ FcEnable
    \/ StorageStats
    \/ CpStatsSummarize
    \/ IsStorageHealthGood

Spec == Init /\ [][Next]_vars

(***************************************************************************)
(* The display-name functions, over tables whose attribute values are any  *)
(* text of the array.                                                      *)
(***************************************************************************)
\* the characters of the attribute texts: a letter, a space, a digit
Chars == {"a", " ", "7"}

Texts == UNION {[1..k -> Chars] : k \in 0..MaxStrLen}

\* a capacity is a text, with or without the unit, or one of two sample values
Capacities ==
    Texts \cup {x \o <<"T", "B">> : x \in Texts}
        \cup { <<"1", "0", ".", "4", "8", " ", "T", "B">>,
               <<"1", "0", "9", "9", "0", "0", "0", "0">> }

\* float(text) raises ValueError; of the texts above (spaces taken out, no
\* unit, no point) float() accepts exactly the strings of digits
float_raises(text) == ~IsInt(text)

\* str(round(float(text) / 1024 / 1024, 1)): the quotient in tenths, printed
\* with one decimal
capacity_in_TB(text) ==
    LET tenths == RoundDiv(10 * IntOf(text), 1024 * 1024)
    IN  StrOfNat(tenths \div 10) \o <<".">> \o <<Digit(tenths % 10)>>

get_VD_name_raises(VDs, id) ==
    LET capacity == Replace(VDs[id].capacity, " ", <<>>)
    IN  ~Contains(capacity, <<"T", "B">>) /\ float_raises(capacity)

get_VD_name_by_id(VDs, id) ==
    LET raid == Replace(VDs[id].raid, " ", <<>>)
        name == Replace(VDs[id].name, " ", <<"-">>)
        capacity == Replace(VDs[id].capacity, " ", <<>>)
        shown == IF ~Contains(capacity, <<"T", "B">>)
                 THEN capacity_in_TB(capacity) \o <<"T", "B">>
                 ELSE capacity
    IN  Join(<<"_">>, <<name, raid, shown>>)

get_DISK_name_by_id(DISKs, id) ==
    LET model == IF "model" \in DOMAIN DISKs[id] THEN DISKs[id].model ELSE <<>>
    IN  Join(<<"_">>, << <<"S", "l", "o", "t">>, DISKs[id].slot, DISKs[id].vendor,
                        model, DISKs[id].serial >>)

get_FC_port_name_by_id(FCs, port) ==
    Replace(Join(<<"_">>, <<FCs[port].ctr, FCs[port].name>>), " ", <<"_">>)

Named(kind, table, raised, out) ==
    [kind |-> kind, table |-> table, raised |-> raised, out |-> out]

GetVDName ==
    /\ nm = NoName
    /\ \E name \in Texts, raid \in Texts, capacity \in Capacities :
        LET VDs == [v \in {1} |-> [name |-> name, raid |-> raid, capacity |-> capacity]]
        IN  nm' = IF get_VD_name_raises(VDs, 1)
                  THEN Named("VD", VDs, TRUE, <<>>)
                  ELSE Named("VD", VDs, FALSE, get_VD_name_by_id(VDs, 1))
    /\ UNCHANGED <<self, ctor, pc, loc, reqs, outcome, array>>

GetDISKName ==
    /\ nm = NoName
    /\ \E vendor \in Texts, serial \in Texts :
        \E DISKs \in
            { [d \in {1} |-> [slot |-> <<"7">>, vendor |-> vendor, serial |-> serial]] }
              \cup { [d \in {1} |-> [slot |-> <<"7">>, vendor |-> vendor, model |-> m,
                                     serial |-> serial]] : m \in Texts } :
            nm' = Named("DISK", DISKs, FALSE, get_DISK_name_by_id(DISKs, 1))
    /\ UNCHANGED <<self, ctor, pc, loc, reqs, outcome, array>>

GetFCPortName ==
    /\ nm = NoName
    /\ \E ctr \in Texts, name \in Texts :
        LET FCs == [k \in {<<"0", ":", "0">>} |-> [ctr |-> ctr, name |-> name]]
        IN  nm' = Named("FC", FCs, FALSE, get_FC_port_name_by_id(FCs, <<"0", ":", "0">>))
    /\ UNCHANGED <<self, ctor, pc, loc, reqs, outcome, array>>

NextNames ==
    \/ GetVDName
    \/ GetDISKName
    \/ GetFCPortName

SpecNames == Init /\ [][NextNames]_vars

(***************************************************************************)
(* vd_discovery against an array that holds N volumes and serves them in   *)
(* pages of k records, with the total N on every page and without faults.  *)
(***************************************************************************)
PagedArrays == [kind : {"paged"}, N : 0..MaxVol, k : 1..MaxVol, asked : {0}]

\* page p of the array a: the total, and the volumes (p - 1) * k + 1 .. p * k
ArrayPage(a, p) ==
    [kind |-> "vd", vd_num |-> a.N,
     udv |-> {v \in 1..a.N : (p - 1) * a.k < v /\ v <= p * a.k},
     blank |-> FALSE]

\* a pass of the loop begins: the GET for the page goes out to the array
VdDiscoveryAsks ==
    /\ pc = "vd_discovery"
    /\ array.asked = 0
    /\ array' = [array EXCEPT !.asked = loc.page]
    /\ UNCHANGED <<self, ctor, pc, loc, reqs, outcome, nm>>

\* the pass goes on: the array answers with the page that was asked for, and
\* the loop processes it; the log keeps the first MaxPages page requests of
\* the call
VdDiscoveryPaged ==
    /\ pc = "vd_discovery"
    /\ array.asked # 0
    /\ LET r == Response(200, ArrayPage(array, array.asked))
       IN  VdDiscoveryPass(r, IF CountPath(reqs, "VD") < MaxPages
                              THEN Append(reqs, Sent(self, "GET", "VD", array.asked, r))
                              ELSE reqs)
    /\ array' = [array EXCEPT !.asked = 0]
    /\ UNCHANGED nm

InitPaged == Start /\ array \in PagedArrays

NextPaged ==
    \/ Connect
    \/ Detect
    \/ VdDiscoveryAsks
    \/ VdDiscoveryPaged

\* the client runs on as long as it has something to do
SpecPaged == InitPaged /\ [][NextPaged]_vars /\ WF_vars(NextPaged)

(***************************************************************************)
(* The stats operations against an array that keeps the inventory that was *)
(* discovered, remembers for which entities monitoring is enabled, serves   *)
(* its stats documents from that, and applies every enable request when it  *)
(* receives it.                                                             *)
(***************************************************************************)
\* the FC ports there may be: <<controller, port index>>
PortPlaces == {0, 1} \X {n - 1 : n \in PortNums}

\* on: the volumes (ids), disks (slots) and FC ports that are monitored;
\* told: the stats operations whose enable request the array has applied
PolledArrays ==
    [kind : {"polled"},
     on : [vd : SUBSET VolIds, disk : SUBSET Slots, fc : SUBSET PortPlaces],
     told : {{}}]

\* the inventory of the array is what the discovery tables hold
ArraySlots == {IntOf(self.DISKs[d].slot) : d \in DOMAIN self.DISKs}

ArrayPorts == {cp \in PortPlaces : fc_stats_id(cp) \in DOMAIN self.FCs}

\* the stats documents of the array
ArrayVdStats(a) == [kind |-> "vd_stats", recs |-> a.on.vd \cap DOMAIN self.VDs]

ArrayDiskStats(a) ==
    [kind |-> "disk_stats",
     recs |-> [n \in ArraySlots |-> IF n \in a.on.disk THEN "Yes" ELSE "No"]]

ArrayFcStats(a) ==
    [kind |-> "fc_stats",
     recs |-> [cp \in ArrayPorts |->
                  IF cp \in a.on.fc THEN [is_enabled |-> "Yes", num_rates |-> <<"5">>]
                  ELSE [is_enabled |-> "No", num_rates |-> <<"0">>]]]

\* the array applies the enable request q
ArrayApplies(a, q) ==
    CASE q.path = "select_stats_VD" ->
            [a EXCEPT !.on.vd = @ \cup {q.arg[j] : j \in DOMAIN q.arg}]
      [] q.path = "select_stats_DISK" ->
            [a EXCEPT !.on.disk = @ \cup {IntOf(q.arg[j]) : j \in DOMAIN q.arg}]
      [] q.path = "select_stats_FC" ->
            [a EXCEPT !.on.fc = @ \cup {cp \in PortPlaces :
                                            \E j \in DOMAIN q.arg : q.arg[j] = fc_stats_id(cp)}]
      [] q.path = "select_stats_FC_SANOS3" ->
            [a EXCEPT !.on.fc = @ \cup {<<IntOf(q.arg.ctrl_idx), IntOf(q.arg.port_idx)>>}]

\* the monitoring system polls: one of the stats operations is called
Poll ==
    /\ pc = "idle"
    /\ ctor = "done"
    /\ \E op \in StatsOperations :
        /\ pc' = op
        /\ outcome' = [op |-> op, status |-> "running", exc |-> "none",
                        ret |-> "None", seen |-> NoneSeen]
    /\ reqs' = <<>>
    /\ loc' = Loc0
    /\ self' = [self EXCEPT !.soup = Stale]
    /\ UNCHANGED <<ctor, nm, array>>

VdStatsPolled ==
    /\ pc = "vd_stats"
    /\ VdStatsOn(Response(200, ArrayVdStats(array)))
    /\ UNCHANGED <<nm, array>>

DiskStatsPolled ==
    /\ pc = "disk_stats"
    /\ DiskStatsOn(Response(200, ArrayDiskStats(array)))
    /\ UNCHANGED <<nm, array>>

FcStatsPolled ==
    /\ pc = "fc_stats"
    /\ FcStatsOn(Response(200, ArrayFcStats(array)))
    /\ UNCHANGED <<nm, array>>

\* a request of an enable helper: the array applies it and acknowledges
EnablePolled ==
    /\ pc \in {"vd_enable", "disk_enable", "fc_enable"}
    /\ loc.todo # <<>>
    /\ EnableStepOn(Response(200, [kind |-> "ack"]))
    /\ array' = [ArrayApplies(array, Head(loc.todo)) EXCEPT !.told = @ \cup {outcome.op}]
    /\ UNCHANGED nm

InitPolled == Start /\ array \in PolledArrays

NextPolled ==
    \/ Connect
    \/ Detect
    \/ VdDiscovery
    \/ DiskDiscovery
    \/ CachePoolDiscovery
    \/ FcDiscovery
    \/ Poll
    \/ VdStatsPolled
    \/ DiskStatsPolled
    \/ FcStatsPolled
    \/ EnablePolled

SpecPolled == InitPolled /\ [][NextPolled]_vars

(***************************************************************************)
(* Properties of the client.                                               *)
(***************************************************************************)
\* a request of the log failed: nothing came back, or a status that is not ok
Failed(q) == q.fault \/ ~q.ok

LastFailed == reqs # <<>> /\ Failed(reqs[Len(reqs)])

\* the enable-monitoring requests of the current call
EnablePosts == Cardinality({i \in 1..Len(reqs) : reqs[i].method = "POST"})

\* the keys of the discovery table a stats operation compares with
Known ==
    CASE outcome.op = "vd_stats" -> DOMAIN self.VDs
      [] outcome.op = "disk_stats" -> DOMAIN self.DISKs
      [] outcome.op = "fc_stats" -> DOMAIN self.FCs
      [] OTHER -> {}

\* the known entities the stats document did not show as monitored
Missing == Known \ outcome.seen.enabled

VdDiscoveryReturned ==
    \/ ctor = "running" /\ pc = "disk_discovery"
    \/ outcome.op = "vd_discovery" /\ outcome.status = "returned"

\* C1: whenever vd_discovery returns normally, the volume table holds as many
\* entries as the vd_num of the last page the call processed
C1_CountMatchesReportedTotal ==
    VdDiscoveryReturned =>
        /\ self.soup.kind = "vd"
        /\ Cardinality(DOMAIN self.VDs) = self.soup.vd_num

\* a vd_discovery that returned after two pages, with two volumes
C1_ReturnedAfterTwoPages ==
    /\ outcome.op = "vd_discovery" /\ outcome.status = "returned"
    /\ Len(reqs) = 2
    /\ Cardinality(DOMAIN self.VDs) = 2
    /\ self.soup.vd_num = 2

\* C2, as the code has it: a stats call whose enabled set differs from the
\* known keys sends one enable request naming every known entity, on either
\* generation, but for fc_stats on generation 3, which sends one request for
\* each known port that is missing from the enabled set; a call whose sets
\* agree sends none; a call an enable request ends with an exception has sent
\* no more than that
C2_EnableRequestsAsSent ==
    LET expected == IF outcome.seen.enabled = Known THEN 0
                    ELSE IF outcome.op = "fc_stats" /\ self.SANOS_VERSION = 3
                         THEN Cardinality(Missing)
                         ELSE 1
    IN  (outcome.op \in StatsOperations /\ reqs # <<>> /\ ~Failed(reqs[1])) =>
            /\ outcome.status = "returned" => EnablePosts = expected
            /\ EnablePosts <= expected

\* C2, as stated: when the enabled set differs from the known keys, the call
\* sends exactly one enable request on generation 4 and exactly one for each
\* missing entity on generation 3, for each of vd_stats, disk_stats, fc_stats
C2_OneBatchedOrOnePerMissing ==
    ( /\ outcome.op \in StatsOperations
      /\ outcome.status = "returned"
      /\ outcome.seen.enabled # Known ) =>
        EnablePosts = IF self.SANOS_VERSION = 4 THEN 1 ELSE Cardinality(Missing)

\* fc_stats on generation 3 returned after one enable request for each of two
\* missing ports
C2_TwoRequestsForTwoPorts ==
    /\ outcome.op = "fc_stats" /\ outcome.status = "returned"
    /\ self.SANOS_VERSION = 3
    /\ Cardinality(Missing) = 2
    /\ EnablePosts = 2

\* a step of a discovery call: a failed fetch raises the transport error, and
\* a step that raises or stays in the call leaves the four tables as they are
DiscoveryStepKeepsTables ==
    pc \in Discoveries =>
        /\ (Len(reqs') > Len(reqs) /\ Failed(reqs'[Len(reqs')])) =>
              (outcome'.status = "raised" /\ outcome'.exc = "RequestException")
        /\ (outcome'.status = "raised" \/ pc' = pc) =>
              Tables(self') = Tables(self)

\* C3: a fetch of a discovery call that fails makes the call raise the
\* transport error, and no step of a discovery call but its normal return
\* changes any of the four tables: they hold what they held before the call
C3_FailedFetchLeavesTables == [][DiscoveryStepKeepsTables]_vars

\* a vd_discovery whose second page request failed, after a first page with
\* records other than those of the table
C3_SecondPageFailed ==
    /\ outcome.op = "vd_discovery" /\ outcome.status = "raised"
    /\ outcome.exc = "RequestException"
    /\ Len(reqs) = 2 /\ Failed(reqs[2])
    /\ outcome.seen.keys # {}
    /\ outcome.seen.keys # DOMAIN self.VDs

\* C4, as stated: on generation 3, cp_stats_summarize and storage_stats each
\* return an empty mapping and never raise, whatever page answers the request
C4_OlderGenerationReturnsEmpty ==
    ( /\ self.SANOS_VERSION = 3
      /\ outcome.op \in {"cp_stats_summarize", "storage_stats"}
      /\ outcome.status \in {"returned", "raised"}
      /\ ~LastFailed ) =>
        (outcome.status = "returned" /\ outcome.ret = EmptyMap)

\* C5, as stated: the display name of a volume, a disk or an FC port holds no
\* space, whatever the attribute texts are
C5_NamesHoldNoSpace ==
    (nm.kind # "none" /\ ~nm.raised) => ~Contains(nm.out, <<" ">>)

\* the page the login POST returned shows neither the logout control nor the
\* logout icon
LoginRefused ==
    /\ pc # "connect"
    /\ self.soup.kind = "login"
    /\ ~self.soup.logout_btn /\ ~self.soup.logout_img

\* C6: a login page without the logout control and without the logout icon
\* ends the construction with an exception after the one login request; the
\* generation and the tables are as they were set at the start, and nothing
\* runs after a construction that failed
C6_RefusedLoginEndsConstruction ==
    /\ [](LoginRefused =>
            /\ ctor = "failed" /\ pc = "failed"
            /\ outcome.status = "raised" /\ outcome.exc = "RequestException"
            /\ Len(reqs) = 1
            /\ reqs[1].method = "POST" /\ reqs[1].path = "login"
            /\ self.SANOS_VERSION = NewObject.SANOS_VERSION
            /\ Tables(self) = Tables(NewObject))
    /\ [][ctor = "failed" => FALSE]_vars

\* the login request was answered with status ok by a page that shows neither
C6_LoginAnsweredAndRefused ==
    /\ LoginRefused
    /\ ctor = "failed"
    /\ Len(reqs) = 1 /\ ~Failed(reqs[1])

\* C7: when a discovery returns, its table holds exactly the entities the
\* array reported during the call, with the attributes reported: whatever the
\* table held before, so a second run against the same array gives the same
C7_TableIsWhatWasReported ==
    (outcome.op \in Discoveries /\ outcome.status = "returned") =>
        CASE outcome.op = "vd_discovery" ->
                self.VDs = [v \in outcome.seen.keys |-> VolAttrs(v)]
          [] outcome.op = "disk_discovery" ->
                /\ DOMAIN self.DISKs = outcome.seen.keys
                /\ self.DISKs = [d \in DOMAIN self.soup.hdd |-> DiskAttrs(self.soup.hdd[d])]
          [] outcome.op = "cache_pool_discovery" ->
                /\ DOMAIN self.CPs = {Replace(n, " ", <<"-">>) : n \in outcome.seen.keys}
                /\ \A k \in DOMAIN self.CPs :
                       Replace(self.CPs[k].ssd_name, " ", <<"-">>) = k
          [] outcome.op = "fc_discovery" ->
                /\ DOMAIN self.FCs =
                       {fc_key(Controllers[k[1] + 1], fc_port_id(self.SANOS_VERSION, k[2])) :
                            k \in outcome.seen.keys}
                /\ \A k \in outcome.seen.keys :
                       self.FCs[fc_key(Controllers[k[1] + 1],
                                       fc_port_id(self.SANOS_VERSION, k[2]))].name = k[2]

\* a disk_discovery called on the constructed object returned with one disk
C7_RediscoveredOneDisk ==
    /\ ctor = "done"
    /\ outcome.op = "disk_discovery" /\ outcome.status = "returned"
    /\ Cardinality(DOMAIN self.DISKs) = 1

\* the request that fetches the stats document of an operation
StatsPath ==
    CASE outcome.op = "vd_stats" -> "VD_stats"
      [] outcome.op = "disk_stats" -> "DISK_stats"
      [] outcome.op = "fc_stats" -> "FC_stats"
      [] OTHER -> "none"

\* the result keys of the records the stats document of the call held
RecordKeys ==
    IF outcome.op = "disk_stats"
    THEN {get_DISK_id_by_slot(self.DISKs, StrOfNat(n)) : n \in outcome.seen.keys}
    ELSE outcome.seen.keys

\* the first request of a stats call fetches the stats document, and every
\* later request of the call is an enable request
OneFetchFirst ==
    (outcome.op \in StatsOperations /\ reqs # <<>>) =>
        /\ reqs[1].method = "GET" /\ reqs[1].path = StatsPath
        /\ \A i \in 2..Len(reqs) : reqs[i].method = "POST"

\* C8, as the code has it: a stats call fetches the stats document once, before
\* any enable request, and its result has an entry for each record of that
\* document and for nothing else: also for a record marked as not monitored
C8_OneFetchAndItsRecords ==
    /\ OneFetchFirst
    /\ (outcome.op \in StatsOperations /\ outcome.status = "returned") =>
            DOMAIN outcome.ret = RecordKeys

\* C8, as stated: and an entity whose monitoring the call's own enable request
\* turns on is not in the result of that call
C8_NewlyEnabledNotReported ==
    /\ OneFetchFirst
    /\ (outcome.op \in StatsOperations /\ outcome.status = "returned") =>
            /\ DOMAIN outcome.ret \subseteq RecordKeys
            /\ EnablePosts > 0 => Missing \cap DOMAIN outcome.ret = {}

\* a disk_stats that sent its enable request and returned the counters of a
\* disk the document marked as not monitored
C8_UnmonitoredDiskReported ==
    /\ outcome.op = "disk_stats" /\ outcome.status = "returned"
    /\ Len(reqs) = 2 /\ EnablePosts = 1
    /\ Missing \cap DOMAIN outcome.ret # {}

\* C9: the object gets its session once, in connect(); from then on it holds
\* that session, and every request goes out on it
C9_OneSession ==
    /\ self.session <= 1
    /\ pc # "connect" => self.session = 1
    /\ \A i \in 1..Len(reqs) : reqs[i].session = 1

\* a vd_stats of the constructed object sent its fetch and an enable request
C9_TwoRequestsOnTheSession ==
    /\ ctor = "done"
    /\ outcome.op = "vd_stats" /\ outcome.status = "returned"
    /\ Len(reqs) = 2
    /\ reqs[1].session = self.session /\ reqs[2].session = self.session

\* a step after the login and the detection leaves the generation as it is
GenerationKept ==
    pc \notin {"connect", "detect"} => self'.SANOS_VERSION = self.SANOS_VERSION

\* C10: after _sanos_version_detect has run, no step changes the generation
C10_GenerationFixed == [][GenerationKept]_vars

\* a health check of an object of generation 3 fetched its page and returned
C10_HealthCheckedOnGeneration3 ==
    /\ ctor = "done"
    /\ self.SANOS_VERSION = 3
    /\ outcome.op = "is_storage_health_Good" /\ outcome.status = "returned"
    /\ Len(reqs) = 1

\* C11, as stated: is_storage_health_Good gives True, False or None and never
\* raises, whatever page answers its request; None only on generation 4, for
\* a page without a 'System Health' item; True or False on generation 3
C11_HealthIsTriStateNeverRaises ==
    ( /\ outcome.op = "is_storage_health_Good"
      /\ outcome.status \in {"returned", "raised"}
      /\ ~LastFailed ) =>
        /\ outcome.status = "returned"
        /\ outcome.ret \in {"True", "False", "None"}
        /\ outcome.ret = "None" =>
              (self.SANOS_VERSION = 4 /\ self.soup.health = "none")
        /\ self.SANOS_VERSION = 3 => outcome.ret \in {"True", "False"}

IsFcRequest(q) == q.path = "FC"

\* the controller indices the fc_discovery requests of the call carried, in order
FcQueried == [i \in 1..Len(SelectSeq(reqs, IsFcRequest)) |-> SelectSeq(reqs, IsFcRequest)[i].arg]

\* C12: an fc_discovery that returns has queried controller 0 and then
\* controller 1, nothing else; a page without a response element adds no port
\* and ends nothing; port number n of controller c, read from the name at the
\* place the generation has it, is in the table under 'c:(n-1)', with the
\* attributes reported, and the table has no other key
C12_PortsKeyedByControllerAndIndex ==
    ( /\ outcome.op \in {"fc_discovery", "__init__"}
      /\ outcome.status = "returned" ) =>
        /\ FcQueried = << <<"0">>, <<"1">> >>
        /\ \A c \in {0, 1}, n \in PortNums :
              LET key == <<Digit(c), ":", Digit(n - 1)>>
                  name == PortName(self.SANOS_VERSION, n)
              IN  /\ key \in DOMAIN self.FCs <=> <<c, name>> \in outcome.seen.keys
                  /\ key \in DOMAIN self.FCs => self.FCs[key].name = name
        /\ Cardinality(DOMAIN self.FCs) = Cardinality(outcome.seen.keys)

\* controller 0 reported no port, controller 1 reported
\* its port 3, which is in the table under '1:2'
C12_Port3OfController1 ==
    /\ outcome.op = "fc_discovery" /\ outcome.status = "returned"
    /\ outcome.seen.keys = {<<1, PortName(self.SANOS_VERSION, 3)>>}
    /\ DOMAIN self.FCs = {<<"1", ":", "2">>}
    /\ self.SANOS_VERSION = 3

RECURSIVE SumReads(_, _, _)
SumReads(doc, field, S) ==
    IF S = {} THEN 0
    ELSE LET v == CHOOSE x \in S : TRUE
         IN  IntOf(doc.vols[v].reads[field]) + SumReads(doc, field, S \ {v})

Distance(a, b) == IF a < b THEN b - a ELSE a - b

\* C14: for a pool whose records sum to h hits of t > 0 reads, the ratio
\* that cp_stats_summarize returns is the integer nearest to 100 * h / t, the
\* even one of two that are equally near; 50 hits of 200 reads give 25
C14_RatioIsRoundedPercentage ==
    ( /\ outcome.op = "cp_stats_summarize" /\ outcome.status = "returned"
      /\ self.SANOS_VERSION = 4 ) =>
        \A i \in self.soup.pools :
            LET served == {v \in DOMAIN self.soup.vols : self.soup.vols[v].rg = i}
                h == SumReads(self.soup, "log_rd_hit", served)
                t == SumReads(self.soup, "log_rd_tot", served)
                ratio == IntOf(outcome.ret[PoolData(i).name].ratio)
            IN  /\ t > 0
                /\ 2 * Distance(100 * h, ratio * t) <= t
                /\ 2 * Distance(100 * h, ratio * t) = t => ratio % 2 = 0
                /\ (h = 50 /\ t = 200) => ratio = 25

\* a pool with one record of 50 hits of 200 reads got the ratio 25
C14_FiftyOfTwoHundred ==
    /\ outcome.op = "cp_stats_summarize" /\ outcome.status = "returned"
    /\ self.SANOS_VERSION = 4
    /\ \E i \in self.soup.pools :
          /\ \E v \in DOMAIN self.soup.vols :
                /\ self.soup.vols[v].rg = i
                /\ self.soup.vols[v].reads.log_rd_hit = <<"5", "0">>
                /\ \A w \in DOMAIN self.soup.vols : w = v
          /\ outcome.ret[PoolData(i).name].ratio = <<"2", "5">>

\* C15: a request that failed is the last request of its call: the call has
\* raised RequestException to its caller (the constructor has failed), and
\* no request follows in it
C15_FailedRequestEndsTheCall ==
    \A i \in 1..Len(reqs) :
        Failed(reqs[i]) =>
            /\ i = Len(reqs)
            /\ outcome.status = "raised" /\ outcome.exc = "RequestException"
            /\ pc = IF ctor = "done" THEN "idle" ELSE "failed"

\* fc_stats on generation 3 had two ports to enable; the first enable request
\* failed and the second was not sent
C15_SecondEnableNotSent ==
    /\ outcome.op = "fc_stats" /\ outcome.status = "raised"
    /\ self.SANOS_VERSION = 3
    /\ Cardinality(Missing) = 2
    /\ Len(reqs) = 2 /\ Failed(reqs[2])

\* the constructor has logged in and detected the generation, and has sent
\* nothing since: _soup is the login page
JustDetected == ctor = "running" /\ pc = "vd_discovery" /\ Len(reqs) = 1

\* C16: after the login, the generation is 4 exactly when the login page has
\* the logo_writing block and 'SANOS 4.0' is somewhere in its text; without
\* the block, or without the signature in it, the generation is 3
C16_GenerationFromLoginPage ==
    JustDetected =>
        LET text == self.soup.logo.text
            signed == /\ self.soup.logo.present
                      /\ \E i \in 1..Len(text) :
                            /\ i + 8 <= Len(text)
                            /\ SubSeq(text, i, i + 8) = Signature
        IN  self.SANOS_VERSION = IF signed THEN 4 ELSE 3

\* the block is there, with 'SANOS 3.0': generation 3
C16_MarkerWithoutSignature ==
    /\ JustDetected
    /\ self.soup.logo.present
    /\ self.soup.logo.text = <<"S", "A", "N", "O", "S", " ", "3", ".", "0">>
    /\ self.SANOS_VERSION = 3

\* C17, as stated: of two page requests of one vd_discovery call the later
\* carries the greater page number; no page is requested twice
C17_PageNumbersIncrease ==
    \A i, j \in {k \in 1..Len(reqs) : reqs[k].path = "VD"} :
        i < j => reqs[i].arg < reqs[j].arg

\* C18, as stated: against an array that serves its N volumes in pages of k
\* records, with the total N on every page and without faults, a
\* vd_discovery that has started comes to its end
C18_PagedDiscoveryTerminates == (pc = "vd_discovery") ~> (pc # "vd_discovery")


\* the elements of a list
Elems(list) == {list[j] : j \in DOMAIN list}

\* the entities an enable request names, by their keys in the discovery table
NamedBy(q) ==
    CASE q.path = "select_stats_VD" -> Elems(q.arg)
      [] q.path = "select_stats_DISK" ->
            {get_DISK_id_by_slot(self.DISKs, slot) : slot \in Elems(q.arg)}
      [] q.path = "select_stats_FC" -> Elems(q.arg)
      [] q.path = "select_stats_FC_SANOS3" ->
            {q.arg.ctrl_idx \o <<":">> \o q.arg.port_idx}
      [] OTHER -> {}

\* the entities the enable requests of the current call name
NamedByCall ==
    UNION {NamedBy(reqs[i]) : i \in {j \in 1..Len(reqs) : reqs[j].method = "POST"}}

\* C19, as the code has it: the enable request of vd_stats, of disk_stats and
\* of fc_stats on generation 4 names every known entity, also those the stats
\* document showed as monitored; only fc_stats on generation 3 names the known
\* ports that are missing from the enabled set: each of its requests names one
\* of them, and the call that returns has named them all
C19_EnableNamesKnownOrMissing ==
    outcome.op \in StatsOperations =>
        /\ \A i \in 1..Len(reqs) :
              reqs[i].method = "POST" =>
                  IF reqs[i].path = "select_stats_FC_SANOS3"
                  THEN NamedBy(reqs[i]) \subseteq Missing
                  ELSE NamedBy(reqs[i]) = Known
        /\ (outcome.status = "returned" /\ EnablePosts > 0) =>
              NamedByCall = IF outcome.op = "fc_stats" /\ self.SANOS_VERSION = 3
                            THEN Missing ELSE Known

\* C19, as stated: the enable requests of a stats call name exactly the known
\* entities that are missing from the enabled set of the stats document
C19_EnableNamesTheMissing ==
    ( /\ outcome.op \in StatsOperations
      /\ outcome.status = "returned"
      /\ EnablePosts > 0 ) =>
        NamedByCall = Missing

\* vd_stats returned after an enable request that named two volumes, one of
\* which the stats document had shown as monitored
C19_EnabledVolumeNamedAgain ==
    /\ outcome.op = "vd_stats" /\ outcome.status = "returned"
    /\ EnablePosts = 1
    /\ Cardinality(NamedByCall) = 2
    /\ Cardinality(Missing) = 1


\* the keys the stats document in hand marks as monitored: for volumes a
\* record being there, for disks and FC ports is_enabled reading "Yes"
EnabledInDocument ==
    CASE self.soup.kind = "vd_stats" -> vd_monitoring_check(self.soup)
      [] self.soup.kind = "disk_stats" -> disk_monitoring_check(self.DISKs, self.soup)
      [] self.soup.kind = "fc_stats" -> fc_monitoring_check(self.soup)
      [] OTHER -> {}

StatsDocumentInHand == self.soup.kind \in {"vd_stats", "disk_stats", "fc_stats"}

\* C20: a stats call whose stats document marks as monitored exactly the keys
\* of the discovery table returns after the stats fetch: that GET is its only
\* request, and no enable request follows
C20_NoEnableWhenSetsAgree ==
    ( /\ outcome.op \in StatsOperations
      /\ StatsDocumentInHand
      /\ EnabledInDocument = Known ) =>
        /\ outcome.status = "returned"
        /\ pc = "idle"
        /\ Len(reqs) = 1
        /\ reqs[1].method = "GET" /\ reqs[1].path = StatsPath
        /\ EnablePosts = 0

\* vd_stats returned after its stats fetch alone, the document holding a
\* record for each of two known volumes
C20_BothVolumesMonitored ==
    /\ outcome.op = "vd_stats" /\ outcome.status = "returned"
    /\ Cardinality(Known) = 2
    /\ StatsDocumentInHand /\ EnabledInDocument = Known
    /\ Len(reqs) = 1


\* the sum of one field over the vol_data records S of a statistics document
RECURSIVE SumField(_, _, _)
SumField(doc, field, S) ==
    IF S = {} THEN 0
    ELSE LET v == CHOOSE x \in S : TRUE
         IN  IntOf(VolData(v, doc.vols[v])[field]) + SumField(doc, field, S \ {v})

\* the vol_data records of the document whose rg is the rg_id of pool i
ServedBy(doc, i) ==
    {v \in DOMAIN doc.vols : VolData(v, doc.vols[v]).rg = PoolData(i).rg_id}

\* the record of S that comes last in the document
LastOf(S) == CHOOSE v \in S : \A w \in S : w <= v

CpSummarizeReturned ==
    /\ outcome.op = "cp_stats_summarize" /\ outcome.status = "returned"
    /\ self.SANOS_VERSION = 4

\* C21, as the code has it: for every pool of a summary that was returned,
\* size_cached and size_dirty are the sums over the pool's records times
\* 1048576 and log_rd_hit and log_rd_tot are the sums; size_alloc is not a
\* sum: it is the size_alloc of the pool's last record times 1048576
C21_SumsAndLastAllocation ==
    CpSummarizeReturned =>
        \A i \in self.soup.pools :
            LET S == ServedBy(self.soup, i)
                set == outcome.ret[PoolData(i).name]
            IN  /\ set.size_cached = StrOfNat(SumField(self.soup, "size_cached", S) * 1048576)
                /\ set.size_dirty = StrOfNat(SumField(self.soup, "size_dirty", S) * 1048576)
                /\ set.log_rd_hit = StrOfNat(SumField(self.soup, "log_rd_hit", S))
                /\ set.log_rd_tot = StrOfNat(SumField(self.soup, "log_rd_tot", S))
                /\ S # {}
                /\ set.size_alloc =
                      StrOfNat(IntOf(VolData(LastOf(S), self.soup.vols[LastOf(S)]).size_alloc)
                                   * 1048576)

\* C21, as stated: each of the five fields of a pool's stat set is the sum of
\* that field over the pool's records, the three sizes times 1048576
C21_EveryFieldSummed ==
    CpSummarizeReturned =>
        \A i \in self.soup.pools :
            LET S == ServedBy(self.soup, i)
                set == outcome.ret[PoolData(i).name]
            IN  /\ set.size_alloc = StrOfNat(SumField(self.soup, "size_alloc", S) * 1048576)
                /\ set.size_cached = StrOfNat(SumField(self.soup, "size_cached", S) * 1048576)
                /\ set.size_dirty = StrOfNat(SumField(self.soup, "size_dirty", S) * 1048576)
                /\ set.log_rd_hit = StrOfNat(SumField(self.soup, "log_rd_hit", S))
                /\ set.log_rd_tot = StrOfNat(SumField(self.soup, "log_rd_tot", S))

\* a summary was returned for a pool with two records: the sizes cached add up
\* to 3 MiB, the size allocated is the 20 MiB of the second record
C21_TwoRecordsOfOnePool ==
    /\ CpSummarizeReturned
    /\ \E i \in self.soup.pools :
          /\ Cardinality(ServedBy(self.soup, i)) = 2
          /\ outcome.ret[PoolData(i).name].size_cached = StrOfNat(3 * 1048576)
          /\ outcome.ret[PoolData(i).name].size_alloc = StrOfNat(20 * 1048576)


\* C22: on generation 4 a cp_stats_summarize whose statistics document arrived
\* does not raise, and returns one stat set for every pool of the document:
\* also for a pool without records and for one whose reads total 0
C22_SummaryForEveryPool ==
    ( /\ outcome.op = "cp_stats_summarize"
      /\ outcome.status \in {"returned", "raised"}
      /\ self.SANOS_VERSION = 4
      /\ self.soup.kind = "cp_stats" ) =>
        /\ outcome.status = "returned"
        /\ DOMAIN outcome.ret = {PoolData(i).name : i \in self.soup.pools}


\* the place of a request in the order of the constructor: the login, then
\* the pages of the volumes, the disks, the cache pools, the FC ports
CtorRank(path) ==
    CASE path = "login" -> 0
      [] path = "VD" -> 1
      [] path = "DISK" -> 2
      [] path = "CP" -> 3
      [] path = "FC" -> 4
      [] OTHER -> 5

\* C23: the login POST is the first request of a run and is sent once; the
\* generation is classified with the login page in hand, before any other
\* page is fetched; the constructor then fetches the pages of the volumes,
\* the disks, the cache pools and the FC ports, in that order, and nothing
\* else; an operation with a stats, health or enable request runs only when
\* the constructor is done
C23_LoginDetectDiscoverThenStats ==
    /\ outcome.op = "__init__" =>
          /\ pc = "connect" => reqs = <<>>
          /\ reqs # <<>> => (reqs[1].method = "POST" /\ reqs[1].path = "login")
          /\ pc = "detect" => (Len(reqs) = 1 /\ self.soup.kind = "login")
          /\ \A j \in 1..Len(reqs) :
                /\ CtorRank(reqs[j].path) <= 4
                /\ \A i \in 1..(j - 1) :
                      /\ CtorRank(reqs[i].path) <= CtorRank(reqs[j].path)
                      /\ reqs[j].path # "login"
    /\ outcome.op # "__init__" => (ctor = "done" /\ pc \in Operations \cup {"idle"} \cup {"vd_enable", "disk_enable", "fc_enable"})
    /\ (\E j \in 1..Len(reqs) : CtorRank(reqs[j].path) = 5) => ctor = "done"
    /\ ctor = "running" => outcome.op = "__init__"

\* the constructor is done on generation 4 after the login and a fetch of
\* each of the four kinds, in their order
C23_ConstructedAfterFiveKinds ==
    /\ outcome.op = "__init__" /\ ctor = "done"
    /\ \E a, b, c, d \in 1..Len(reqs) :
          /\ 1 < a /\ a < b /\ b < c /\ c < d
          /\ reqs[a].path = "VD" /\ reqs[b].path = "DISK"
          /\ reqs[c].path = "CP" /\ reqs[d].path = "FC"


\* the disk enable requests in the log of the current call
DiskEnableRequests ==
    {i \in 1..Len(reqs) : reqs[i].method = "POST" /\ reqs[i].path = "select_stats_DISK"}

\* the request names the slot of every disk of the table, each once
NamesTheSlotsOfTheTable(q) ==
    /\ Elems(q.arg) = {get_DISK_slot_by_id(self.DISKs, d) : d \in DOMAIN self.DISKs}
    /\ Len(q.arg) = Cardinality(DOMAIN self.DISKs)

\* C24, as the code has it: the disk enable request names the slot of each
\* disk of the table, and lists the slots in the ascending order of strings,
\* whatever the order of the disks in the table: slot 10 comes before slot 2
C24_SlotsSortedAsStrings ==
    \A i \in DiskEnableRequests :
        /\ NamesTheSlotsOfTheTable(reqs[i])
        /\ \A a, b \in 1..Len(reqs[i].arg) :
              a < b => LexLess(reqs[i].arg[a], reqs[i].arg[b])

\* C24, as stated: the disk enable request names the slot of each disk of the
\* table and lists the slots in the ascending order of their numbers
C24_SlotsSortedAsNumbers ==
    \A i \in DiskEnableRequests :
        /\ NamesTheSlotsOfTheTable(reqs[i])
        /\ \A a, b \in 1..Len(reqs[i].arg) :
              a < b => IntOf(reqs[i].arg[a]) < IntOf(reqs[i].arg[b])

\* disk_stats has sent its enable request for the disks in the slots 2 and
\* 10, the disk with the lower id sitting in slot 2
C24_SlotTenBeforeSlotTwo ==
    /\ outcome.op = "disk_stats"
    /\ DiskEnableRequests # {}
    /\ \A i \in DiskEnableRequests : reqs[i].arg = << <<"1", "0">>, <<"2">> >>
    /\ DOMAIN self.DISKs = {1, 2}
    /\ self.DISKs[1].slot = <<"2">>


\* the table a stats operation compares with
TableOf(op) ==
    CASE op = "vd_stats" -> self.VDs
      [] op = "disk_stats" -> self.DISKs
      [] op = "fc_stats" -> self.FCs

\* a stats operation is called after the array has applied an enable request
\* of an earlier call of it: the stats document shows every known entity as
\* monitored, and the call returns after that one fetch, the array having
\* received nothing more
PolledAgain ==
    (pc \in StatsOperations /\ pc \in array.told) =>
        /\ pc' = "idle"
        /\ outcome'.status = "returned"
        /\ outcome'.seen.enabled = DOMAIN TableOf(pc)
        /\ Len(reqs') = 1 /\ reqs'[1].method = "GET"
        /\ array' = array

\* C25: against an array that keeps the discovered inventory and applies
\* every enable request at once, a stats operation that has issued an enable
\* request in one call issues none in any later call: each later call finds
\* the enabled set equal to the known set
C25_EnabledOnceStaysEnabled == [][PolledAgain]_vars

\* vd_stats was called again after an enable request of an earlier call,
\* found the two known volumes monitored and returned after its fetch
C25_SecondPollFindsAllEnabled ==
    /\ array.kind = "polled"
    /\ outcome.op = "vd_stats" /\ outcome.status = "returned"
    /\ "vd_stats" \in array.told
    /\ Len(reqs) = 1
    /\ Cardinality(DOMAIN self.VDs) = 2
    /\ outcome.seen.enabled = DOMAIN self.VDs


\* C26: every key of the mapping a stats operation returns is a key of its
\* discovery table, whatever the stats document reports, so that the name
\* lookup of the formatter finds a record for it
C26_ReturnedKeysAreKnown ==
    (outcome.op \in StatsOperations /\ outcome.status = "returned") =>
        DOMAIN outcome.ret \subseteq Known

\* the table a discovery fills
OwnTable(label) ==
    CASE label = "vd_discovery" -> "VDs"
      [] label = "disk_discovery" -> "DISKs"
      [] label = "cache_pool_discovery" -> "CPs"
      [] label = "fc_discovery" -> "FCs"
      [] OTHER -> "none"

\* a step that changes a discovery table is a step of the discovery of that
\* table
TablesFramed ==
    \A k \in {"VDs", "DISKs", "CPs", "FCs"} :
        self'[k] # self[k] => (pc \in Discoveries /\ k = OwnTable(pc))

\* C27: no step of a stats, health or enable operation, of connect or of the
\* detection changes a discovery table, whether the operation returns or
\* raises, and a step of a discovery changes no table but its own
C27_TablesChangeInTheirDiscoveryOnly == [][TablesFramed]_vars

\* disk_stats raised at its enable request, the tables of the volumes and of
\* the disks holding what was discovered
C27_EnableFailedTablesKept ==
    /\ outcome.op = "disk_stats" /\ outcome.status = "raised"
    /\ EnablePosts = 1
    /\ Cardinality(DOMAIN self.DISKs) = 2
    /\ Cardinality(DOMAIN self.VDs) = 1

====
